---- MODULE Spec2Model ----
(***************************************************************************)
(* A model of ImHex's task manager                                         *)
(* (lib/libimhex/source/api/task_manager.cpp): the worker pool, the task   *)
(* registry and pending queue, cooperative interruption, TaskHolder, the   *)
(* garbage collector with its completion callbacks, and the deferred-call  *)
(* queue.                                                                  *)
(*                                                                         *)
(* Threads are interleaved at the granularity of the code's lock and       *)
(* atomic operations.  std::atomic fields are sequentially consistent.     *)
(* A shared_ptr<Task> is a task id; ids are given in createTask order.     *)
(***************************************************************************)
EXTENDS Integers, Sequences, FiniteSets, TLC

\* ------------------------------------------------------------------ bounds
MaxTasks == 2          \* createTask calls in the pool specifications
MaxWorkers == 2        \* largest std::thread::hardware_concurrency() drawn by init()
MaxValue == 2          \* the non-zero progress ceiling handed to createTask
MaxCallers == 2        \* threads calling doLater / runWhenTasksFinished
MaxCallbacks == 3      \* callbacks handed to doLater / runWhenTasksFinished
FinishedTasks == 1     \* createTask calls in the completion-callback specification
HolderTasks == 1       \* createTask calls in the TaskHolder specification

TaskIds == 1..MaxTasks
WorkerIds == 1..MaxWorkers
CallerIds == 1..MaxCallers
CallbackIds == 1..MaxCallbacks

VARIABLES
    tmPc,               \* lifecycle of the manager: constructed, running, exit() steps,
                        \* or terminated with the process
    wpc, wtask, wip,    \* per worker: position in the loop, local `task`, position in m_function
    stopRequested,      \* per worker: its jthread's stop state
    s_queueMutex,       \* 0 when free, else the worker holding it across a step
    s_tasks, s_taskQueue,
    taskCount,          \* tasks constructed so far
    m_function, m_maxValue, m_currValue, m_background,
    m_finished, m_hadException, m_interrupted, m_shouldInterrupt,
    m_exceptionMessage,
    m_interruptCallback,    \* whether an interrupt callback is set
    callbackRan,        \* history: the task's interrupt callback was invoked
    outcome,            \* history: how the work function of a task ended
    cleared,            \* history: clearException() was called on the task
    popped, started,    \* history: tasks in pop order / in order of starting to execute
    gcPc, gcIdx,        \* collectGarbage(): position, and position in the callback list
    s_deferredCalls, s_tasksFinishedCallbacks,
    s_deferredCallsMutex,   \* "free", or its owner: "main" (runDeferredCalls) or "gc"
    s_tasksFinishedMutex,   \* 0 when free, else the caller thread holding it
    cpc, carg,          \* per caller thread: the call it is in, and the callback it passes
    callbackCount,      \* callbacks constructed so far
    callsDoLater,       \* per callback: whether its body calls doLater()
    rdPc, rdIdx,        \* runDeferredCalls(): position, and position in the list
    passStart,          \* history: s_deferredCalls when the running pass took the lock
    deferredLog,        \* history: deferred callbacks in order of invocation
    finishedLog,        \* history: completion callbacks invoked, with s_tasks.empty() then
    obs                 \* the last call of the observing thread and what it returned

taskVars == <<m_function, m_maxValue, m_currValue, m_background, m_finished,
              m_hadException, m_interrupted, m_shouldInterrupt, m_exceptionMessage,
              m_interruptCallback>>
histVars == <<callbackRan, outcome, cleared, popped, started>>
workerVars == <<wpc, wtask, wip, stopRequested, s_queueMutex>>
listVars == <<s_tasks, s_taskQueue, taskCount>>
gcVars == <<gcPc, gcIdx>>
callVars == <<s_deferredCalls, s_deferredCallsMutex, cpc, carg, callbackCount,
              callsDoLater, rdPc, rdIdx, passStart, deferredLog>>
finVars == <<s_tasksFinishedCallbacks, s_tasksFinishedMutex, finishedLog>>
poolVars == <<tmPc, workerVars, listVars, taskVars, histVars>>
restVars == <<gcVars, callVars, finVars, obs>>
vars == <<poolVars, restVars>>

\* ----------------------------------------------------------------- helpers
Range(s) == {s[i] : i \in 1..Len(s)}

\* ------------------------------------------------------ unsigned integers
\* A u64 or u32 value is the sequence of its 16-bit limbs, lowest first, so
\* that the arithmetic of getProgress keeps the widths of the code.
LimbBase == 2^16
LimbBits == 16
U64Limbs == 4
U32Limbs == 2

\* The value n < 2^31 in k limbs.
Wide(n, k) == [i \in 1..k |-> IF i = 1 THEN n % LimbBase
                              ELSE IF i = 2 THEN n \div LimbBase ELSE 0]
U64(n) == Wide(n, U64Limbs)
U32(n) == Wide(n, U32Limbs)

\* a in k limbs: the conversion to a narrower type keeps the low limbs, the
\* conversion to a wider one adds zero limbs.
Resize(a, k) == [i \in 1..k |-> IF i <= Len(a) THEN a[i] ELSE 0]

IsZero(a) == \A i \in 1..Len(a) : a[i] = 0

\* a * m for a small m, in Len(a) + 1 limbs (nothing is lost).
RECURSIVE MulCarry(_, _, _, _)
MulCarry(a, m, i, carry) ==
    IF i > Len(a) THEN <<carry>>
    ELSE LET p == a[i] * m + carry
         IN <<p % LimbBase>> \o MulCarry(a, m, i + 1, p \div LimbBase)
MulSmall(a, m) == MulCarry(a, m, 1, 0)

\* a >= b, for a and b of one length.
RECURSIVE GeqFrom(_, _, _)
GeqFrom(a, b, i) ==
    IF i = 0 THEN TRUE
    ELSE IF a[i] # b[i] THEN a[i] > b[i]
    ELSE GeqFrom(a, b, i - 1)
Geq(a, b) == GeqFrom(a, b, Len(a))

\* a - b, for a >= b of one length.
RECURSIVE SubBorrow(_, _, _, _)
SubBorrow(a, b, i, borrow) ==
    IF i > Len(a) THEN << >>
    ELSE LET d == a[i] - b[i] - borrow
         IN <<IF d < 0 THEN d + LimbBase ELSE d>>
                \o SubBorrow(a, b, i + 1, IF d < 0 THEN 1 ELSE 0)
Sub(a, b) == SubBorrow(a, b, 1, 0)

\* 2 * a + bit, in Len(a) limbs.
RECURSIVE ShlCarry(_, _, _)
ShlCarry(a, i, carry) ==
    IF i > Len(a) THEN << >>
    ELSE LET v == 2 * a[i] + carry
         IN <<v % LimbBase>> \o ShlCarry(a, i + 1, v \div LimbBase)
Shl1(a, bit) == ShlCarry(a, 1, bit)

\* Bit j of a, bit 0 the lowest.
BitOf(a, j) == (a[(j \div LimbBits) + 1] \div 2^(j % LimbBits)) % 2

\* The quotient a / d of unsigned division, d # 0, in Len(a) limbs: long
\* division from bit j of a down, r the remainder and q the quotient so far.
RECURSIVE DivFrom(_, _, _, _, _)
DivFrom(a, d, j, r, q) ==
    IF j < 0 THEN q
    ELSE LET r2 == Shl1(r, BitOf(a, j))
             fits == Geq(r2, d)
             r3 == IF fits THEN Sub(r2, d) ELSE r2
             q2 == Shl1(q, IF fits THEN 1 ELSE 0)
         IN IF Len(r3) = Len(q2)     \* r3 and q2 are computed before the next bit
            THEN DivFrom(a, d, j - 1, r3, q2) ELSE q
\* Values below 2^31 are divided as integers, which gives the same quotient.
Below31(a) == (\A i \in 3..Len(a) : a[i] = 0) /\ a[2] < LimbBase \div 2
Div(a, d) ==
    LET n == Len(a) + 1
    IN IF Below31(a) /\ Below31(d)
       THEN Wide((a[1] + a[2] * LimbBase) \div (d[1] + d[2] * LimbBase), Len(a))
       ELSE Resize(DivFrom(a, Resize(d, n), LimbBits * Len(a) - 1,
                           Resize(<< >>, n), Resize(<< >>, n)), Len(a))

\* ------------------------------------------------------- work functions
\* A work function (Task::m_function) is the sequence of the calls it makes
\* on its own Task before it returns, values as u64; <<"throw", _>> ends it by throwing.
ScriptReturn == << >>
ScriptProgress == << <<"update", U64(1)>>, <<"update", U64(MaxValue)>> >>
ScriptThrow == << <<"update", U64(1)>>, <<"throw", "std">> >>
ScriptUnknown == << <<"throw", "unknown">> >>
ScriptCallback == << <<"setInterruptCallback", 0>>, <<"update", U64(1)>> >>
PoolScripts == {ScriptReturn, ScriptProgress, ScriptThrow, ScriptUnknown}
HolderScripts == {ScriptProgress, ScriptCallback}
ShutdownScripts == {ScriptReturn, ScriptProgress}

\* The Task object is alive while some shared_ptr owns it: the registry, the
\* pending queue, or a worker's local `task`.
Alive(t) ==
    \/ t \in Range(s_tasks)
    \/ t \in Range(s_taskQueue)
    \/ \E w \in WorkerIds : wtask[w] = t
    \/ obs.pc = "divide" /\ obs.task = t      \* the `task` of a getProgress() call

\* The value of `obs` before any call of the observing thread (the TaskHolder
\* calls and the counting calls of the manager).  pc is "done" between calls;
\* max1, value and max2 are what a getProgress() call read, in that order.
NoObs == [op |-> "none", task |-> 0, resolved |-> FALSE, isRunning |-> FALSE,
          hadException |-> FALSE, shouldInterrupt |-> FALSE,
          wasInterrupted |-> FALSE, progress |-> U32(0),
          pc |-> "done", max1 |-> U64(0), value |-> U64(0), max2 |-> U64(0),
          divByZero |-> FALSE, count |-> 0]

Init ==
    /\ tmPc = "constructed"
    /\ wpc = [w \in WorkerIds |-> "none"]
    /\ wtask = [w \in WorkerIds |-> 0]
    /\ wip = [w \in WorkerIds |-> 0]
    /\ stopRequested = [w \in WorkerIds |-> FALSE]
    /\ s_queueMutex = 0
    /\ s_tasks = << >>
    /\ s_taskQueue = << >>
    /\ taskCount = 0
    /\ m_function = [t \in TaskIds |-> << >>]
    /\ m_maxValue = [t \in TaskIds |-> U64(0)]
    /\ m_currValue = [t \in TaskIds |-> U64(0)]
    /\ m_background = [t \in TaskIds |-> FALSE]
    /\ m_finished = [t \in TaskIds |-> FALSE]
    /\ m_hadException = [t \in TaskIds |-> FALSE]
    /\ m_interrupted = [t \in TaskIds |-> FALSE]
    /\ m_shouldInterrupt = [t \in TaskIds |-> FALSE]
    /\ m_exceptionMessage = [t \in TaskIds |-> ""]
    /\ m_interruptCallback = [t \in TaskIds |-> FALSE]
    /\ callbackRan = [t \in TaskIds |-> FALSE]
    /\ outcome = [t \in TaskIds |-> "none"]
    /\ cleared = [t \in TaskIds |-> FALSE]
    /\ popped = << >>
    /\ started = << >>
    /\ gcPc = "idle"
    /\ gcIdx = 0
    /\ s_deferredCalls = << >>
    /\ s_tasksFinishedCallbacks = << >>
    /\ s_deferredCallsMutex = "free"
    /\ s_tasksFinishedMutex = 0
    /\ cpc = [c \in CallerIds |-> "idle"]
    /\ carg = [c \in CallerIds |-> 0]
    /\ callbackCount = 0
    /\ callsDoLater = [f \in CallbackIds |-> FALSE]
    /\ rdPc = "idle"
    /\ rdIdx = 0
    /\ passStart = << >>
    /\ deferredLog = << >>
    /\ finishedLog = << >>
    /\ obs = NoObs

\* TaskManager::init(): threadCount workers, each at the top of its loop.
TMInit(threadCount) ==
    /\ tmPc = "constructed"
    /\ tmPc' = "running"
    /\ wpc' = [w \in WorkerIds |-> IF w <= threadCount THEN "lock" ELSE "none"]
    /\ UNCHANGED <<wtask, wip, stopRequested, s_queueMutex, listVars, taskVars,
                   histVars, restVars>>

\* --------------------------------------------------------------- Task
\* Mutant: update() does not look at the interrupt request.
UpdateThrows_Never(t) == FALSE

\* Task::update: whether the call throws TaskInterruptor after storing the value.
UpdateThrows(t) == m_shouldInterrupt[t]

\* Task::interruption, Task::exception, Task::finish: the flag each one sets.
interruption(t) == [m_interrupted EXCEPT ![t] = TRUE]
exception(t) == [m_hadException EXCEPT ![t] = TRUE]
finish(t) == [m_finished EXCEPT ![t] = TRUE]

\* Task::interrupt on each task of the set `ts`: the flag, then the callback
\* on the calling thread if one is set.
Interrupt(ts) ==
    /\ m_shouldInterrupt' = [t \in TaskIds |-> m_shouldInterrupt[t] \/ t \in ts]
    /\ callbackRan' = [t \in TaskIds |->
                         callbackRan[t] \/ (t \in ts /\ m_interruptCallback[t])]

\* Task::interrupt called on a registered task (through getRunningTasks()).
TaskInterrupt(t) ==
    /\ tmPc = "running"
    /\ t \in Range(s_tasks)
    /\ Interrupt({t})
    /\ UNCHANGED <<tmPc, workerVars, listVars, restVars, m_function,
                   m_maxValue,
                   m_currValue, m_background, m_finished, m_hadException,
                   m_interrupted, m_exceptionMessage, m_interruptCallback,
                   outcome, cleared, popped, started>>

\* Task::clearException on a registered task.  On a task whose flag is not
\* set the call changes nothing, so only the other case is a step.
ClearException(t) ==
    /\ tmPc = "running"
    /\ t \in Range(s_tasks)
    /\ m_hadException[t]
    /\ m_hadException' = [m_hadException EXCEPT ![t] = FALSE]
    /\ cleared' = [cleared EXCEPT ![t] = TRUE]
    /\ UNCHANGED <<tmPc, workerVars, listVars, restVars, m_function,
                   m_maxValue,
                   m_currValue, m_background, m_finished, m_interrupted,
                   m_shouldInterrupt, m_exceptionMessage, m_interruptCallback,
                   callbackRan, outcome, popped, started>>

\* ------------------------------------------------------------ worker loop
\* s_taskQueue.front() / pop_front().
QueueFront(q) == Head(q)

\* Mutant: the worker takes the front task and leaves it in the queue.
QueuePop_Keep(q) == q

QueuePop(q) == Tail(q)

\* Mutant: the task is put at the front of the queue.
QueuePush_Front(q, t) == <<t>> \o q

\* s_taskQueue.emplace_back(task) in createTask.
QueuePush(q, t) == Append(q, t)

\* The predicate of s_jobCondVar.wait, evaluated by worker w under s_queueMutex.
WaitPredicate(w) == s_taskQueue # << >> \/ stopRequested[w]

\* Worker w takes s_queueMutex (at the top of the loop, or when it returns from
\* the condition variable) and evaluates the wait predicate.  False: it goes
\* on to wait, still holding the mutex.  True: it leaves the loop on a stop
\* request, or else pops the front of the queue; both release the mutex.
WorkerLock(w) ==
    /\ wpc[w] = "lock"
    /\ s_queueMutex = 0
    /\ IF ~WaitPredicate(w)
       THEN /\ wpc' = [wpc EXCEPT ![w] = "towait"]
            /\ s_queueMutex' = w
            /\ UNCHANGED <<wtask, wip, s_taskQueue, popped>>
       ELSE IF stopRequested[w]
       THEN /\ wpc' = [wpc EXCEPT ![w] = "exited"]
            /\ UNCHANGED <<s_queueMutex, wtask, wip, s_taskQueue, popped>>
       ELSE /\ wtask' = [wtask EXCEPT ![w] = QueueFront(s_taskQueue)]
            /\ s_taskQueue' = QueuePop(s_taskQueue)
            /\ popped' = Append(popped, QueueFront(s_taskQueue))
            /\ wip' = [wip EXCEPT ![w] = 1]
            /\ wpc' = [wpc EXCEPT ![w] = "run"]
            /\ UNCHANGED s_queueMutex
    /\ UNCHANGED <<tmPc, stopRequested, s_tasks, taskCount, taskVars, restVars,
                   callbackRan, outcome, cleared, started>>

\* condition_variable::wait releases the mutex and blocks, atomically.
WorkerPark(w) ==
    /\ wpc[w] = "towait"
    /\ wpc' = [wpc EXCEPT ![w] = "parked"]
    /\ s_queueMutex' = 0
    /\ UNCHANGED <<tmPc, wtask, wip, stopRequested, listVars, taskVars, histVars,
                   restVars>>

\* A blocked wait may return without a notification.
SpuriousWakeup(w) ==
    /\ wpc[w] = "parked"
    /\ wpc' = [wpc EXCEPT ![w] = "lock"]
    /\ UNCHANGED <<tmPc, wtask, wip, stopRequested, s_queueMutex, listVars,
                   taskVars, histVars, restVars>>

\* One step of task->m_function(*task): the next call the work function
\* makes, or its return.
WorkerRun(w) ==
    LET t == wtask[w]
        f == m_function[t]
        i == wip[w]
    IN
    /\ wpc[w] = "run"
    /\ started' = IF i = 1 THEN Append(started, t) ELSE started
    /\ IF i > Len(f)
       THEN /\ wpc' = [wpc EXCEPT ![w] = "finish"]
            /\ outcome' = [outcome EXCEPT ![t] = "returned"]
            /\ UNCHANGED <<wip, m_currValue, m_maxValue, m_interruptCallback>>
       ELSE CASE f[i][1] = "update" ->
                 /\ m_currValue' = [m_currValue EXCEPT ![t] = f[i][2]]
                 /\ IF UpdateThrows(t)
                    THEN /\ wpc' = [wpc EXCEPT ![w] = "catchInterruptor"]
                         /\ outcome' = [outcome EXCEPT ![t] = "unwound"]
                         /\ UNCHANGED wip
                    ELSE /\ wip' = [wip EXCEPT ![w] = i + 1]
                         /\ UNCHANGED <<wpc, outcome>>
                 /\ UNCHANGED <<m_maxValue, m_interruptCallback>>
              [] f[i][1] = "setMaxValue" ->
                 /\ m_maxValue' = [m_maxValue EXCEPT ![t] = f[i][2]]
                 /\ wip' = [wip EXCEPT ![w] = i + 1]
                 /\ UNCHANGED <<wpc, outcome, m_currValue, m_interruptCallback>>
              [] f[i][1] = "setInterruptCallback" ->
                 /\ m_interruptCallback' = [m_interruptCallback EXCEPT ![t] = TRUE]
                 /\ wip' = [wip EXCEPT ![w] = i + 1]
                 /\ UNCHANGED <<wpc, outcome, m_currValue, m_maxValue>>
              [] f[i][1] = "throw" ->
                 /\ wpc' = [wpc EXCEPT ![w] =
                              IF f[i][2] = "std" THEN "catchStd" ELSE "catchUnknown"]
                 /\ outcome' = [outcome EXCEPT ![t] = "threw"]
                 /\ UNCHANGED <<wip, m_currValue, m_maxValue, m_interruptCallback>>
    /\ UNCHANGED <<tmPc, wtask, stopRequested, s_queueMutex, listVars, restVars,
                   m_function, m_background, m_finished, m_hadException,
                   m_interrupted, m_shouldInterrupt, m_exceptionMessage,
                   callbackRan, cleared, popped>>

\* Mutant: the clauses that record a failure also take a TaskInterruptor.
CatchesException_Any(pc) == pc \in {"catchInterruptor", "catchStd", "catchUnknown"}

\* Which catch clause takes what the work function threw: the clause for
\* Task::TaskInterruptor, or the clauses for std::exception and for the rest.
CatchesInterruptor(pc) == pc = "catchInterruptor"
CatchesException(pc) == pc \in {"catchStd", "catchUnknown"}

\* Mutant: there is no catch (...) clause, and an exception of unknown type
\* ends the worker thread.
AfterCatch_NoCatchAll(pc) == IF pc = "catchUnknown" THEN "exited" ELSE "finish"

\* Where the worker goes from a catch clause: to the statement after the try
\* block, task->finish().
AfterCatch(pc) == "finish"

\* Mutant: the worker marks the task finished when it enters a catch clause
\* and records the outcome after that.
WorkerCatch_FinishFirst(w) ==
    LET t == wtask[w] IN
    /\ wpc[w] \in {"catchInterruptor", "catchStd", "catchUnknown"}
    /\ IF ~m_finished[t]
       THEN /\ m_finished' = finish(t)
            /\ UNCHANGED <<wpc, m_interrupted, m_hadException, m_exceptionMessage>>
       ELSE /\ m_interrupted' = IF CatchesInterruptor(wpc[w]) THEN interruption(t)
                                ELSE m_interrupted
            /\ m_hadException' = IF CatchesException(wpc[w]) THEN exception(t)
                                 ELSE m_hadException
            /\ m_exceptionMessage' =
                   IF CatchesException(wpc[w])
                   THEN [m_exceptionMessage EXCEPT ![t] = "what"]
                   ELSE m_exceptionMessage
            /\ wpc' = [wpc EXCEPT ![w] = "finish"]
            /\ UNCHANGED m_finished
    /\ UNCHANGED <<tmPc, wtask, wip, stopRequested, s_queueMutex, listVars, restVars,
                   m_function, m_maxValue, m_currValue, m_background,
                   m_shouldInterrupt, m_interruptCallback, histVars>>

\* The catch clauses of the worker: the outcome recorded on the task.
WorkerCatch(w) ==
    LET t == wtask[w] IN
    /\ wpc[w] \in {"catchInterruptor", "catchStd", "catchUnknown"}
    /\ m_interrupted' = IF CatchesInterruptor(wpc[w]) THEN interruption(t)
                        ELSE m_interrupted
    /\ m_hadException' = IF CatchesException(wpc[w]) THEN exception(t)
                         ELSE m_hadException
    /\ m_exceptionMessage' =
           IF CatchesException(wpc[w])
           THEN [m_exceptionMessage EXCEPT ![t] =
                    IF wpc[w] = "catchUnknown" THEN "Unknown Exception" ELSE "what"]
           ELSE m_exceptionMessage
    /\ wpc' = [wpc EXCEPT ![w] = AfterCatch(wpc[w])]
    /\ UNCHANGED <<tmPc, wtask, wip, stopRequested, s_queueMutex, listVars, restVars,
                   m_function, m_maxValue, m_currValue, m_background, m_finished,
                   m_shouldInterrupt, m_interruptCallback, histVars>>

\* task->finish(), and the end of the loop body, which drops the local `task`.
WorkerFinish(w) ==
    LET t == wtask[w] IN
    /\ wpc[w] = "finish"
    /\ m_finished' = finish(t)
    /\ wtask' = [wtask EXCEPT ![w] = 0]
    /\ wip' = [wip EXCEPT ![w] = 0]
    /\ wpc' = [wpc EXCEPT ![w] = "lock"]
    /\ UNCHANGED <<tmPc, stopRequested, s_queueMutex, listVars, restVars,
                   m_function, m_maxValue, m_currValue, m_background,
                   m_hadException, m_interrupted, m_shouldInterrupt,
                   m_exceptionMessage, m_interruptCallback, histVars>>

Worker(w) ==
    \/ WorkerLock(w)
    \/ WorkerPark(w)
    \/ SpuriousWakeup(w)
    \/ WorkerRun(w)
    \/ WorkerCatch(w)
    \/ WorkerFinish(w)

\* ------------------------------------------------------------ createTask
\* Mutant: createTask() does not notify.
Parked_None == {}

\* s_jobCondVar.notify_one(): the workers one of which is woken.
Parked == {w \in WorkerIds : wpc[w] = "parked"}

\* TaskManager::createTask, the whole call under s_queueMutex.  `limit` bounds
\* the number of calls.
CreateTask(limit, function, maxValue, background) ==
    LET t == taskCount + 1 IN
    /\ tmPc = "running"
    /\ taskCount < limit
    /\ s_queueMutex = 0
    /\ taskCount' = t
    /\ m_function' = [m_function EXCEPT ![t] = function]
    /\ m_maxValue' = [m_maxValue EXCEPT ![t] = maxValue]
    /\ m_background' = [m_background EXCEPT ![t] = background]
    /\ s_tasks' = Append(s_tasks, t)
    /\ s_taskQueue' = QueuePush(s_taskQueue, t)
    /\ IF Parked = {}
       THEN UNCHANGED wpc
       ELSE \E w \in Parked : wpc' = [wpc EXCEPT ![w] = "lock"]
    /\ UNCHANGED <<tmPc, wtask, wip, stopRequested, s_queueMutex, restVars,
                   m_currValue, m_finished, m_hadException, m_interrupted,
                   m_shouldInterrupt, m_exceptionMessage, m_interruptCallback,
                   histVars>>

\* ------------------------------------------------------------------ exit
\* TaskManager::exit(), first loop: interrupt every registered task.
ExitInterrupt ==
    /\ tmPc = "running"
    /\ gcPc = "idle"
    /\ tmPc' = "exit_stop"
    /\ Interrupt(Range(s_tasks))
    /\ UNCHANGED <<workerVars, listVars, restVars, m_function,
                   m_maxValue,
                   m_currValue, m_background, m_finished, m_hadException,
                   m_interrupted, m_exceptionMessage, m_interruptCallback,
                   outcome, cleared, popped, started>>

\* Second loop: request_stop() on every worker.
ExitRequestStop ==
    /\ tmPc = "exit_stop"
    /\ tmPc' = "exit_notify"
    /\ stopRequested' = [w \in WorkerIds |-> wpc[w] # "none"]
    /\ UNCHANGED <<wpc, wtask, wip, s_queueMutex, listVars, taskVars, histVars,
                   restVars>>

\* s_jobCondVar.notify_all(): every worker blocked in wait returns from it.
ExitNotifyAll ==
    /\ tmPc = "exit_notify"
    /\ tmPc' = "exit_join"
    /\ wpc' = [w \in WorkerIds |-> IF wpc[w] = "parked" THEN "lock" ELSE wpc[w]]
    /\ UNCHANGED <<wtask, wip, stopRequested, s_queueMutex, listVars, taskVars,
                   histVars, restVars>>

\* s_workers.clear() joins every worker; then both lists are cleared, which
\* destroys the tasks left: ~Task interrupts a task that has not finished.
ExitJoin ==
    /\ tmPc = "exit_join"
    /\ \A w \in WorkerIds : wpc[w] \in {"none", "exited"}
    /\ tmPc' = "exited"
    /\ s_tasks' = << >>
    /\ s_taskQueue' = << >>
    /\ Interrupt({t \in Range(s_tasks) \cup Range(s_taskQueue) : ~m_finished[t]})
    /\ UNCHANGED <<workerVars, taskCount, restVars, m_function,
                   m_maxValue,
                   m_currValue, m_background, m_finished, m_hadException,
                   m_interrupted, m_exceptionMessage, m_interruptCallback,
                   outcome, cleared, popped, started>>

Exit ==
    \/ ExitInterrupt
    \/ ExitRequestStop
    \/ ExitNotifyAll
    \/ ExitJoin

\* -------------------------------------------------------- collectGarbage
\* Mutant: a task is erased whether or not it is finished.
ShouldErase_NotFailed(t) == ~m_hadException[t]

\* Mutant: a finished task is erased whether or not it failed.
ShouldErase_Finished(t) == m_finished[t]

\* The predicate of std::erase_if in collectGarbage.
ShouldErase(t) == m_finished[t] /\ ~m_hadException[t]

\* collectGarbage(), the first block: erase_if under s_queueMutex.
GcErase ==
    /\ tmPc = "running"
    /\ gcPc = "idle"
    /\ s_queueMutex = 0
    /\ s_tasks' = SelectSeq(s_tasks, LAMBDA t : ~ShouldErase(t))
    /\ gcPc' = "check"
    /\ UNCHANGED <<tmPc, workerVars, s_taskQueue, taskCount, taskVars, histVars,
                   gcIdx, callVars, finVars, obs>>

\* if (s_tasks.empty()), read with no lock held.
GcCheck ==
    /\ gcPc = "check"
    /\ gcPc' = IF s_tasks = << >> THEN "lock" ELSE "idle"
    /\ UNCHANGED <<poolVars, gcIdx, callVars, finVars, obs>>

\* std::scoped_lock lock(s_deferredCallsMutex), and the loop's begin().
GcLock ==
    /\ gcPc = "lock"
    /\ s_deferredCallsMutex = "free"
    /\ s_deferredCallsMutex' = "gc"
    /\ gcPc' = "fire"
    /\ gcIdx' = 1
    /\ UNCHANGED <<poolVars, s_deferredCalls, cpc, carg, callbackCount,
                   callsDoLater, rdPc, rdIdx, passStart, deferredLog, finVars, obs>>

\* One iteration of the loop over s_tasksFinishedCallbacks: the call of the
\* next element, or the end of the loop.  The list is read as it is at this
\* step: runWhenTasksFinished() appends under another mutex.
GcFire ==
    /\ gcPc = "fire"
    /\ IF gcIdx <= Len(s_tasksFinishedCallbacks)
       THEN /\ finishedLog' = Append(finishedLog,
                                     <<s_tasksFinishedCallbacks[gcIdx], s_tasks = << >> >>)
            /\ gcIdx' = gcIdx + 1
            /\ UNCHANGED gcPc
       ELSE /\ gcPc' = "clear"
            /\ UNCHANGED <<gcIdx, finishedLog>>
    /\ UNCHANGED <<poolVars, callVars, s_tasksFinishedCallbacks,
                   s_tasksFinishedMutex, obs>>

\* s_tasksFinishedCallbacks.clear(), and the end of the locked block.
GcClear ==
    /\ gcPc = "clear"
    /\ s_tasksFinishedCallbacks' = << >>
    /\ s_deferredCallsMutex' = "free"
    /\ gcPc' = "idle"
    /\ gcIdx' = 0
    /\ UNCHANGED <<poolVars, s_deferredCalls, cpc, carg, callbackCount,
                   callsDoLater, rdPc, rdIdx, passStart, deferredLog,
                   s_tasksFinishedMutex, finishedLog, obs>>

CollectGarbage ==
    \/ GcErase
    \/ GcCheck
    \/ GcLock
    \/ GcFire
    \/ GcClear

\* --------------------------------------------------- runWhenTasksFinished
\* std::scoped_lock lock(s_tasksFinishedMutex), with a new callback in hand.
RunWhenLock(c) ==
    /\ cpc[c] = "idle"
    /\ callbackCount < MaxCallbacks
    /\ s_tasksFinishedMutex = 0
    /\ s_tasksFinishedMutex' = c
    /\ callbackCount' = callbackCount + 1
    /\ cpc' = [cpc EXCEPT ![c] = "runWhenTasksFinished"]
    /\ carg' = [carg EXCEPT ![c] = callbackCount + 1]
    /\ UNCHANGED <<poolVars, gcVars, s_deferredCalls, s_deferredCallsMutex,
                   callsDoLater, rdPc, rdIdx, passStart, deferredLog,
                   s_tasksFinishedCallbacks, finishedLog, obs>>

\* s_tasksFinishedCallbacks.push_back(function), and the unlock.
RunWhenPush(c) ==
    /\ cpc[c] = "runWhenTasksFinished"
    /\ s_tasksFinishedCallbacks' = Append(s_tasksFinishedCallbacks, carg[c])
    /\ s_tasksFinishedMutex' = 0
    /\ cpc' = [cpc EXCEPT ![c] = "idle"]
    /\ carg' = [carg EXCEPT ![c] = 0]
    /\ UNCHANGED <<poolVars, gcVars, s_deferredCalls, s_deferredCallsMutex,
                   callbackCount, callsDoLater, rdPc, rdIdx, passStart,
                   deferredLog, finishedLog, obs>>

RunWhenTasksFinished(c) ==
    \/ RunWhenLock(c)
    \/ RunWhenPush(c)

\* ------------------------------------------------ doLater, runDeferredCalls
\* A thread other than the one in runDeferredCalls() enters doLater() with a
\* new callback; `nested` says whether that callback's body calls doLater().
DoLaterCall(c, nested) ==
    /\ cpc[c] = "idle"
    /\ rdPc # "terminated"
    /\ callbackCount < MaxCallbacks
    /\ callbackCount' = callbackCount + 1
    /\ callsDoLater' = [callsDoLater EXCEPT ![callbackCount + 1] = nested]
    /\ cpc' = [cpc EXCEPT ![c] = "doLater"]
    /\ carg' = [carg EXCEPT ![c] = callbackCount + 1]
    /\ UNCHANGED <<poolVars, gcVars, s_deferredCalls, s_deferredCallsMutex,
                   rdPc, rdIdx, passStart, deferredLog, finVars, obs>>

\* Mutant: doLater() appends without taking s_deferredCallsMutex.
DoLaterPush_NoLock(c) ==
    /\ cpc[c] = "doLater"
    /\ rdPc # "terminated"
    /\ s_deferredCalls' = Append(s_deferredCalls, carg[c])
    /\ cpc' = [cpc EXCEPT ![c] = "idle"]
    /\ carg' = [carg EXCEPT ![c] = 0]
    /\ UNCHANGED <<poolVars, gcVars, s_deferredCallsMutex, callbackCount,
                   callsDoLater, rdPc, rdIdx, passStart, deferredLog, finVars, obs>>

\* doLater(): the lock, the push_back and the unlock.
DoLaterPush(c) ==
    /\ cpc[c] = "doLater"
    /\ rdPc # "terminated"
    /\ s_deferredCallsMutex = "free"
    /\ s_deferredCalls' = Append(s_deferredCalls, carg[c])
    /\ cpc' = [cpc EXCEPT ![c] = "idle"]
    /\ carg' = [carg EXCEPT ![c] = 0]
    /\ UNCHANGED <<poolVars, gcVars, s_deferredCallsMutex, callbackCount,
                   callsDoLater, rdPc, rdIdx, passStart, deferredLog, finVars, obs>>

DoLater(c) ==
    \/ \E nested \in BOOLEAN : DoLaterCall(c, nested)
    \/ DoLaterPush(c)

\* What becomes of the thread in runDeferredCalls() when the callback it runs
\* calls doLater(): it locks s_deferredCallsMutex, a std::mutex it already
\* owns, which is undefined; the thread blocks for ever, or the lock fails
\* with an error no one catches and the process ends.
RelockOutcomes == {"deadlocked", "terminated"}

\* runDeferredCalls(): std::scoped_lock lock(s_deferredCallsMutex).
RunDeferredLock ==
    /\ rdPc = "idle"
    /\ s_deferredCallsMutex = "free"
    /\ s_deferredCallsMutex' = "main"
    /\ rdPc' = "loop"
    /\ rdIdx' = 1
    /\ passStart' = s_deferredCalls
    /\ UNCHANGED <<poolVars, gcVars, s_deferredCalls, cpc, carg, callbackCount,
                   callsDoLater, deferredLog, finVars, obs>>

\* One iteration of the loop over s_deferredCalls, the mutex held: the call
\* of the next element.
RunDeferredCall ==
    /\ rdPc = "loop"
    /\ rdIdx <= Len(s_deferredCalls)
    /\ deferredLog' = Append(deferredLog, s_deferredCalls[rdIdx])
    /\ IF callsDoLater[s_deferredCalls[rdIdx]]
       THEN /\ rdPc' \in RelockOutcomes
            /\ UNCHANGED rdIdx
       ELSE /\ rdIdx' = rdIdx + 1
            /\ UNCHANGED rdPc
    /\ UNCHANGED <<poolVars, gcVars, s_deferredCalls, s_deferredCallsMutex, cpc,
                   carg, callbackCount, callsDoLater, passStart, finVars, obs>>

\* The end of the loop: s_deferredCalls.clear(), and the unlock.
RunDeferredClear ==
    /\ rdPc = "loop"
    /\ rdIdx > Len(s_deferredCalls)
    /\ s_deferredCalls' = << >>
    /\ s_deferredCallsMutex' = "free"
    /\ rdPc' = "idle"
    /\ rdIdx' = 0
    /\ passStart' = << >>
    /\ UNCHANGED <<poolVars, gcVars, cpc, carg, callbackCount, callsDoLater,
                   deferredLog, finVars, obs>>

RunDeferredCalls ==
    \/ RunDeferredLock
    \/ RunDeferredCall
    \/ RunDeferredClear

\* ------------------------------------------------------------ TaskHolder
\* Mutant: the holder reads the task without checking the reference.
Lock_Unchecked(t) == TRUE

\* m_task.lock(): whether the weak reference still resolves.
Lock(t) == Alive(t)

\* TaskHolder::isRunning, hadException, shouldInterrupt, wasInterrupted.
HolderIsRunning(t) == IF ~Lock(t) THEN FALSE ELSE ~m_finished[t]
HolderHadException(t) == IF ~Lock(t) THEN FALSE ELSE ~m_hadException[t]
HolderShouldInterrupt(t) == IF ~Lock(t) THEN FALSE ELSE ~m_shouldInterrupt[t]
HolderWasInterrupted(t) == IF ~Lock(t) THEN FALSE ELSE ~m_interrupted[t]

\* u32((task->getValue() * 100) / task->getMaxValue()): the product in u64,
\* the quotient converted to u32.
Percent(value, maxValue) ==
    Resize(Div(Resize(MulSmall(value, 100), U64Limbs), maxValue), U32Limbs)

\* TaskHolder::getProgress.
HolderGetProgress(t) ==
    IF ~Lock(t) THEN U32(0)
    ELSE IF IsZero(m_maxValue[t]) THEN U32(0)
    ELSE Percent(m_currValue[t], m_maxValue[t])

\* A thread calls the five queries of the holder of task t, one after the
\* other with no step of another thread between them.
HolderQuery(t) ==
    /\ t \in 1..taskCount
    /\ obs.pc = "done"
    /\ obs' = [NoObs EXCEPT !.op = "query", !.task = t, !.resolved = Alive(t),
                            !.isRunning = HolderIsRunning(t),
                            !.hadException = HolderHadException(t),
                            !.shouldInterrupt = HolderShouldInterrupt(t),
                            !.wasInterrupted = HolderWasInterrupted(t),
                            !.progress = HolderGetProgress(t)]
    /\ UNCHANGED <<poolVars, gcVars, callVars, finVars>>

\* TaskHolder::interrupt.
HolderInterrupt(t) ==
    /\ t \in 1..taskCount
    /\ tmPc = "running"
    /\ obs.pc = "done"
    /\ obs' = [NoObs EXCEPT !.op = "interrupt", !.task = t, !.resolved = Alive(t)]
    /\ IF ~Lock(t)
       THEN UNCHANGED <<m_shouldInterrupt, callbackRan>>
       ELSE Interrupt({t})
    /\ UNCHANGED <<tmPc, workerVars, listVars, gcVars, callVars, finVars,
                   m_function, m_maxValue, m_currValue, m_background, m_finished,
                   m_hadException, m_interrupted, m_exceptionMessage,
                   m_interruptCallback, outcome, cleared, popped, started>>

\* What the division of getProgress() gives when the max value it reads as
\* the divisor is 0, which is undefined: the process is stopped by the trap,
\* or the call returns a value the hardware leaves in the result.
U32Max == [i \in 1..U32Limbs |-> LimbBase - 1]
DivByZeroResults == {U32(0), U32Max}

\* TaskHolder::getProgress() as the thread calling it runs it against the
\* worker.  First m_task.lock() and the test of getMaxValue() against 0.
GetProgressTest(t) ==
    /\ t \in 1..taskCount
    /\ obs.pc = "done"
    /\ obs' = IF ~Lock(t)
              THEN [NoObs EXCEPT !.op = "getProgress", !.task = t]
              ELSE IF IsZero(m_maxValue[t])
              THEN [NoObs EXCEPT !.op = "getProgress", !.task = t,
                                 !.resolved = TRUE, !.max1 = m_maxValue[t]]
              ELSE [NoObs EXCEPT !.op = "getProgress", !.task = t,
                                 !.resolved = TRUE, !.max1 = m_maxValue[t],
                                 !.pc = "divide"]
    /\ UNCHANGED <<poolVars, gcVars, callVars, finVars>>

\* Then the return statement: getValue() and getMaxValue() are read again and
\* divided.  A trap stops the process: the manager and every worker with it.
GetProgressDivide ==
    LET t == obs.task
        value == m_currValue[t]
        maxValue == m_maxValue[t]
    IN
    /\ obs.pc = "divide"
    /\ IF IsZero(maxValue)
       THEN \/ /\ obs' = [obs EXCEPT !.value = value, !.max2 = maxValue,
                                     !.divByZero = TRUE, !.pc = "terminated"]
               /\ tmPc' = "terminated"
               /\ wpc' = [w \in WorkerIds |->
                            IF wpc[w] = "none" THEN "none" ELSE "terminated"]
            \/ /\ \E r \in DivByZeroResults :
                     obs' = [obs EXCEPT !.value = value, !.max2 = maxValue,
                                        !.divByZero = TRUE, !.pc = "done",
                                        !.progress = r]
               /\ UNCHANGED <<tmPc, wpc>>
       ELSE /\ obs' = [obs EXCEPT !.value = value, !.max2 = maxValue,
                                  !.pc = "done",
                                  !.progress = Percent(value, maxValue)]
            /\ UNCHANGED <<tmPc, wpc>>
    /\ UNCHANGED <<wtask, wip, stopRequested, s_queueMutex, listVars, taskVars,
                   histVars, gcVars, callVars, finVars>>

GetProgress ==
    \/ \E t \in TaskIds : GetProgressTest(t)
    \/ GetProgressDivide

Next ==
    \/ \E n \in 1..MaxWorkers : TMInit(n)
    \/ \E f \in PoolScripts : CreateTask(MaxTasks, f, U64(MaxValue), FALSE)
    \/ \E w \in WorkerIds : Worker(w)
    \/ \E t \in TaskIds : TaskInterrupt(t)
    \/ \E t \in TaskIds : ClearException(t)
    \/ CollectGarbage
    \/ Exit

Spec == Init /\ [][Next]_vars

\* The pool under the scheduling the code can rely on: a worker that can take
\* a step takes it, and so does the thread in exit().  A wait that returns
\* without a notification is possible and never promised.
WorkerStep(w) ==
    \/ WorkerLock(w)
    \/ WorkerPark(w)
    \/ WorkerRun(w)
    \/ WorkerCatch(w)
    \/ WorkerFinish(w)

NextShutdown ==
    \/ \E n \in 1..MaxWorkers : TMInit(n)
    \/ \E f \in ShutdownScripts : CreateTask(MaxTasks, f, U64(MaxValue), FALSE)
    \/ \E w \in WorkerIds : Worker(w)
    \/ Exit

FairSpec ==
    /\ Init
    /\ [][NextShutdown]_vars
    /\ \A w \in WorkerIds : WF_vars(WorkerStep(w))
    /\ WF_vars(Exit)

\* The pool with no exit(): tasks are created and run.  A worker that can take
\* a step takes it; a wait never has to return without a notification.
NextRun ==
    \/ \E n \in 1..MaxWorkers : TMInit(n)
    \/ \E f \in PoolScripts : CreateTask(MaxTasks, f, U64(MaxValue), FALSE)
    \/ \E w \in WorkerIds : Worker(w)
    \/ \E t \in TaskIds : TaskInterrupt(t)

FairRunSpec ==
    /\ Init
    /\ [][NextRun]_vars
    /\ \A w \in WorkerIds : WF_vars(WorkerStep(w))

\* One worker, the garbage collector, and the holders of the tasks.
NextHolder ==
    \/ TMInit(1)
    \/ \E f \in HolderScripts, m \in {0, MaxValue} :
          CreateTask(HolderTasks, f, U64(m), FALSE)
    \/ \E w \in WorkerIds : Worker(w)
    \/ CollectGarbage
    \/ \E t \in TaskIds : HolderQuery(t)
    \/ \E t \in TaskIds : HolderInterrupt(t)

SpecHolder == Init /\ [][NextHolder]_vars

\* One worker, the garbage collector, and threads that register completion
\* callbacks and create tasks.
NextFinished ==
    \/ TMInit(1)
    \/ CreateTask(FinishedTasks, ScriptProgress, U64(MaxValue), FALSE)
    \/ \E w \in WorkerIds : Worker(w)
    \/ \E t \in TaskIds : TaskInterrupt(t)
    \/ CollectGarbage
    \/ \E c \in CallerIds : RunWhenTasksFinished(c)

SpecFinished == Init /\ [][NextFinished]_vars

\* doLater() from other threads against runDeferredCalls() on the main thread.
NextDeferred ==
    \/ \E c \in CallerIds : DoLater(c)
    \/ RunDeferredCalls

SpecDeferred == Init /\ [][NextDeferred]_vars

\* std::count_if over s_tasks with the predicate of getRunningTaskCount()
\* (background = FALSE) or of getRunningBackgroundTaskCount() (TRUE).
CountIf(background) ==
    Cardinality({i \in 1..Len(s_tasks) : m_background[s_tasks[i]] = background})

\* TaskManager::getRunningTaskCount(), under s_queueMutex.
GetRunningTaskCount ==
    /\ obs.pc = "done"
    /\ s_queueMutex = 0
    /\ obs' = [NoObs EXCEPT !.op = "getRunningTaskCount", !.count = CountIf(FALSE)]
    /\ UNCHANGED <<poolVars, gcVars, callVars, finVars>>

\* TaskManager::getRunningBackgroundTaskCount(), under s_queueMutex.
GetRunningBackgroundTaskCount ==
    /\ obs.pc = "done"
    /\ s_queueMutex = 0
    /\ obs' = [NoObs EXCEPT !.op = "getRunningBackgroundTaskCount",
                            !.count = CountIf(TRUE)]
    /\ UNCHANGED <<poolVars, gcVars, callVars, finVars>>

\* One worker and the garbage collector, tasks of both kinds that return or
\* fail, and a thread that asks for the counts.
CountScripts == {ScriptReturn, ScriptThrow}

NextCount ==
    \/ TMInit(1)
    \/ \E f \in CountScripts, background \in BOOLEAN :
          CreateTask(MaxTasks, f, U64(MaxValue), background)
    \/ \E w \in WorkerIds : Worker(w)
    \/ CollectGarbage
    \/ GetRunningTaskCount
    \/ GetRunningBackgroundTaskCount

SpecCount == Init /\ [][NextCount]_vars

\* The values a work function reports and the ceilings it is given: small
\* ones, 2^32, 2^63 and 2^64 - 1.
Pow2_32 == [i \in 1..U64Limbs |-> IF i = 3 THEN 1 ELSE 0]
Pow2_63 == [i \in 1..U64Limbs |-> IF i = U64Limbs THEN LimbBase \div 2 ELSE 0]
U64Max == [i \in 1..U64Limbs |-> LimbBase - 1]
ProgressValues == {U64(1), U64(MaxValue + 1), Pow2_32, Pow2_63, U64Max}
ProgressMaxima == {U64(0), U64(1), U64(MaxValue), Pow2_63}
ProgressScripts ==
    {<< <<"setMaxValue", m>>, <<"update", v>> >> :
        m \in ProgressMaxima, v \in ProgressValues}

\* One worker running a task that sets its ceiling and reports a value, against
\* a thread that reads the progress through the holder and may interrupt.
NextProgress ==
    \/ TMInit(1)
    \/ \E f \in ProgressScripts, m \in {U64(0), U64(MaxValue)} :
          CreateTask(HolderTasks, f, m, FALSE)
    \/ \E w \in WorkerIds : Worker(w)
    \/ GetProgress
    \/ \E t \in TaskIds : HolderInterrupt(t)

SpecProgress == Init /\ [][NextProgress]_vars

\* ------------------------------------------------------------- properties
Created == 1..taskCount
NumWorkers == Cardinality({w \in WorkerIds : wpc[w] # "none"})
NoDuplicates(s) == \A i, j \in 1..Len(s) : s[i] = s[j] => i = j

\* C1: once exit() has been called it returns, with every worker joined, and
\* the registry and the pending queue are empty afterwards.
C1_ShutdownTerminates ==
    (tmPc = "exit_stop") ~> (tmPc = "exited" /\ s_tasks = << >> /\ s_taskQueue = << >>)

\* C2: no task has both interrupted and hadException set, and a finished task
\* on which clearException was not called carries exactly the flags of the way
\* its work function ended: none (returned), interrupted alone (unwound by the
\* cancellation signal), or hadException alone (threw).
C2_OneOutcome ==
    \A t \in Created :
        /\ ~(m_interrupted[t] /\ m_hadException[t])
        /\ (m_finished[t] /\ ~cleared[t]) =>
              /\ (outcome[t] = "returned") <=> (~m_interrupted[t] /\ ~m_hadException[t])
              /\ (outcome[t] = "unwound") <=> (m_interrupted[t] /\ ~m_hadException[t])
              /\ (outcome[t] = "threw") <=> (m_hadException[t] /\ ~m_interrupted[t])

C2_Witness ==
    /\ \E t \in Created : m_finished[t] /\ m_hadException[t] /\ ~cleared[t]
    /\ \E t \in Created : m_finished[t] /\ m_interrupted[t]

\* C3: tasks are popped from the pending queue in the order of their createTask
\* calls, and with a single worker their work functions start in that order.
InCreationOrder(s) == \A i \in 1..Len(s) : s[i] = i

C3_Fifo ==
    /\ InCreationOrder(popped)
    /\ NumWorkers = 1 => InCreationOrder(started)

C3_Witness == NumWorkers = 1 /\ Len(started) >= 2

\* C4 (amended): a collectGarbage() call erases from the registry exactly the
\* tasks that are finished and have no exception set, so a task with
\* hadException set is never erased and a finished one without it always is;
\* and a task whose work function threw stays registered until exit() as long
\* as clearException() was not called on it.
GcEraseStep == gcPc = "idle" /\ gcPc' = "check"

C4_CollectGarbage ==
    /\ [][GcEraseStep =>
            \A t \in TaskIds :
                t \in Range(s_tasks') <=>
                    (t \in Range(s_tasks) /\ ~(m_finished[t] /\ ~m_hadException[t]))]_vars
    /\ [](\A t \in Created :
            (outcome[t] = "threw" /\ ~cleared[t] /\ tmPc # "exited")
                => t \in Range(s_tasks))

C4_Witness ==
    \E t \in Created :
        /\ outcome[t] = "threw" /\ cleared[t] /\ m_finished[t]
        /\ tmPc = "running" /\ t \notin Range(s_tasks)

\* C4 as stated: in addition, once clearException() has been called on a task
\* whose work function threw, the next collectGarbage() call erases it.
C4_NextCollectErases ==
    /\ C4_CollectGarbage
    /\ [][GcEraseStep =>
            \A t \in Created :
                (outcome[t] = "threw" /\ cleared[t] /\ t \in Range(s_tasks))
                    => t \notin Range(s_tasks')]_vars

\* C5: every callback handed to runWhenTasksFinished() is invoked exactly once
\* (never dropped from the list uninvoked, never twice), only while the
\* registry is empty, and in registration order.
Registered == {f \in 1..callbackCount : \A c \in CallerIds : carg[c] # f}
Fired == {finishedLog[i][1] : i \in 1..Len(finishedLog)}

C5_CompletionCallbacks ==
    /\ \A i \in 1..Len(finishedLog) : finishedLog[i][2]
    /\ \A i, j \in 1..Len(finishedLog) : i < j => finishedLog[i][1] < finishedLog[j][1]
    /\ \A f \in Registered : f \in Range(s_tasksFinishedCallbacks) \/ f \in Fired

\* C6: a runDeferredCalls() pass invokes the callbacks that were in the queue
\* when it began, in queue order, and nothing is appended while it runs; over
\* all passes every appended callback is invoked at most once, and it is in
\* the queue until the pass that invokes it ends.
PassDone ==
    CASE rdPc = "loop" -> rdIdx - 1
      [] rdPc \in RelockOutcomes -> rdIdx
      [] OTHER -> 0
Appended == {f \in 1..callbackCount : \A c \in CallerIds : carg[c] # f}
EarlierPasses == SubSeq(deferredLog, 1, Len(deferredLog) - PassDone)

C6_DeferredOnce ==
    /\ Len(deferredLog) >= PassDone
    /\ SubSeq(deferredLog, Len(deferredLog) - PassDone + 1, Len(deferredLog))
          = SubSeq(s_deferredCalls, 1, PassDone)
    /\ rdPc = "loop" => s_deferredCalls = passStart
    /\ NoDuplicates(EarlierPasses \o s_deferredCalls)
    /\ Range(EarlierPasses \o s_deferredCalls) = Appended

\* A second pass is under way, and a thread that called doLater() during it
\* waits for the mutex.
C6_Witness ==
    /\ rdPc = "loop"
    /\ PassDone >= 1
    /\ Len(EarlierPasses) >= 1
    /\ \E c \in CallerIds : cpc[c] = "doLater"

\* C7: a deferred callback that calls doLater() does not stop the thread in
\* runDeferredCalls(): the pass and the nested doLater() both complete.
C7_NestedDoLaterCompletes == rdPc \notin RelockOutcomes

\* C8: when the holder of a task has reported it finished, and the task ran
\* to normal completion with no interrupt request and its last update was its
\* max value (> 0), the holder reports wasInterrupted() = false,
\* hadException() = false and getProgress() = 100.
C8_HolderReportsCompletion ==
    LET t == obs.task IN
    (/\ obs.op = "query" /\ obs.resolved /\ ~obs.isRunning
     /\ outcome[t] = "returned" /\ ~m_shouldInterrupt[t]
     /\ ~IsZero(m_maxValue[t]) /\ m_currValue[t] = m_maxValue[t])
        => (~obs.wasInterrupted /\ ~obs.hadException /\ obs.progress = U32(100))

\* C9: on a holder whose task was destroyed the queries return false, false,
\* false, false and 0, and interrupt() changes nothing of the manager or of
\* any task and runs no interrupt callback.
C9_DeadHolder ==
    /\ []((obs.op = "query" /\ ~obs.resolved) =>
            /\ ~obs.isRunning /\ ~obs.hadException /\ ~obs.wasInterrupted
            /\ ~obs.shouldInterrupt /\ obs.progress = U32(0))
    /\ [][(obs' # obs /\ obs'.op = "interrupt" /\ ~obs'.resolved) =>
            UNCHANGED <<poolVars, gcVars, callVars, finVars>>]_vars

C9_Witness ==
    /\ obs.op = "interrupt" /\ ~obs.resolved
    /\ m_interruptCallback[obs.task] /\ ~callbackRan[obs.task]
    /\ ~m_shouldInterrupt[obs.task]

\* C10: an update() call made while the interrupt request is set does not
\* return to the work function: the worker goes to the TaskInterruptor clause;
\* a task unwound this way never gets hadException and is interrupted by the
\* time it is finished; a work function that never calls update() is never
\* unwound, and one that only returns ends completed normally.
AtInterruptedUpdate(w) ==
    /\ wpc[w] = "run"
    /\ wip[w] <= Len(m_function[wtask[w]])
    /\ m_function[wtask[w]][wip[w]][1] = "update"
    /\ m_shouldInterrupt[wtask[w]]
CallsUpdate(f) == \E i \in 1..Len(f) : f[i][1] = "update"

C10_InterruptUnwinds ==
    /\ [][\A w \in WorkerIds :
            AtInterruptedUpdate(w) =>
                \/ wpc'[w] = "catchInterruptor"
                \/ wpc'[w] = "run" /\ wip'[w] = wip[w]]_vars
    /\ [](\A t \in Created :
            /\ outcome[t] = "unwound" =>
                  (~m_hadException[t] /\ (m_finished[t] => m_interrupted[t]))
            /\ ~CallsUpdate(m_function[t]) =>
                  (outcome[t] # "unwound" /\ ~m_interrupted[t])
            /\ (m_function[t] = ScriptReturn /\ m_finished[t]) =>
                  (outcome[t] = "returned" /\ ~m_hadException[t]))

C10_Witness ==
    /\ \E t \in Created : outcome[t] = "unwound" /\ m_finished[t] /\ m_interrupted[t]
    /\ \E t \in Created :
          /\ m_function[t] = ScriptReturn /\ m_shouldInterrupt[t]
          /\ m_finished[t] /\ outcome[t] = "returned"
\* C11: a getProgress() call on a live task returns 0 when the max value it
\* read is 0, and otherwise the exact floor(current * 100 / max) of the values
\* it read, whatever u64 values they are.
C11_ProgressIsFloor ==
    (obs.op = "getProgress" /\ obs.pc = "done" /\ obs.resolved /\ ~obs.divByZero) =>
        IF IsZero(obs.max1) THEN obs.progress = U32(0)
        ELSE Resize(obs.progress, U64Limbs + 1)
                = Div(MulSmall(obs.value, 100), Resize(obs.max2, U64Limbs + 1))

\* C12: getRunningTaskCount() returns the number of registered tasks that
\* are not finished and not background tasks, getRunningBackgroundTaskCount()
\* the number that are not finished and are background tasks.
Unfinished(background) ==
    Cardinality({t \in Range(s_tasks) : ~m_finished[t] /\ m_background[t] = background})

C12_CountsUnfinished ==
    [][/\ (obs' # obs /\ obs'.op = "getRunningTaskCount")
            => obs'.count = Unfinished(FALSE)
       /\ (obs' # obs /\ obs'.op = "getRunningBackgroundTaskCount")
            => obs'.count = Unfinished(TRUE)]_vars

\* C13: when the worker sets finished, the outcome of the run is already on
\* the task (interrupted, or hadException with its message, "Unknown Exception"
\* for an exception of unknown type), and no step of a worker changes
\* interrupted, hadException or the message of a finished task: the one write
\* to them after finished is the clearException() of another thread.
Classified(t) ==
    /\ outcome[t] = "returned" => ~m_interrupted[t] /\ ~m_hadException[t]
    /\ outcome[t] = "unwound" => m_interrupted[t]
    /\ (outcome[t] = "threw" /\ ~cleared[t]) =>
          m_hadException[t] /\ m_exceptionMessage[t] \in {"what", "Unknown Exception"}
    /\ outcome[t] # "none"

C13_ClassifiedBeforeFinished ==
    /\ [](\A t \in Created : m_finished[t] => Classified(t))
    /\ [][\A t \in Created :
            /\ (~m_finished[t] /\ m_finished'[t]) =>
                  /\ Classified(t)
                  /\ m_interrupted'[t] = m_interrupted[t]
                  /\ m_hadException'[t] = m_hadException[t]
            /\ m_finished[t] =>
                  /\ m_finished'[t]
                  /\ m_interrupted'[t] = m_interrupted[t]
                  /\ m_exceptionMessage'[t] = m_exceptionMessage[t]
                  /\ m_hadException'[t] # m_hadException[t] =>
                        (~m_hadException'[t] /\ cleared'[t] /\ wpc' = wpc)]_vars

\* A finished task that failed with an exception of unknown type, one that was
\* interrupted, and a failure cleared after the task finished.
C13_Witness ==
    /\ \E t \in Created :
          /\ m_finished[t] /\ outcome[t] = "threw"
          /\ m_exceptionMessage[t] = "Unknown Exception"
          /\ cleared[t] /\ ~m_hadException[t]
    /\ \E t \in Created : m_finished[t] /\ outcome[t] = "unwound"

\* C14: a worker leaves its loop only when a stop has been requested and the
\* pending queue is empty; when it returns from the wait with a stop requested
\* and a task pending, it pops the task and runs it.
C14_LeavesOnlyWhenDrained ==
    [][\A w \in WorkerIds :
         /\ (wpc[w] # "exited" /\ wpc'[w] = "exited") =>
               (stopRequested[w] /\ s_taskQueue = << >>)
         /\ (wpc[w] = "lock" /\ wpc'[w] # "lock" /\ stopRequested[w]
                /\ s_taskQueue # << >>) =>
               (wpc'[w] = "run" /\ wtask'[w] = QueueFront(s_taskQueue))]_vars

\* C15: the append of runWhenTasksFinished() and the iterate-and-clear of
\* collectGarbage() exclude each other: no thread is inside the append while
\* collectGarbage() is inside its loop or at its clear(), and no registered
\* callback leaves the queue without having been invoked.
Appending == {c \in CallerIds : cpc[c] = "runWhenTasksFinished"}
Iterating == gcPc \in {"fire", "clear"}

C15_OneCriticalSection ==
    /\ ~(Iterating /\ Appending # {})
    /\ \A f \in Registered : f \in Range(s_tasksFinishedCallbacks) \/ f \in Fired

\* C17: however a work function ends, the worker records the outcome (an
\* exception of unknown type with the message "Unknown Exception"), marks the
\* task finished and goes back to the queue; no worker thread ends before a
\* stop was requested of it.
LiveWorkers == {w \in WorkerIds : wpc[w] \notin {"none", "exited", "terminated"}}
InBody(w) == wpc[w] \in {"run", "catchInterruptor", "catchStd", "catchUnknown", "finish"}

C17_FailureKeepsWorker ==
    /\ [](\A w \in WorkerIds : wpc[w] = "exited" => stopRequested[w])
    /\ [](\A t \in Created :
            (m_finished[t] /\ m_function[t] = ScriptUnknown) =>
                /\ outcome[t] = "threw"
                /\ m_exceptionMessage[t] = "Unknown Exception")
    /\ [][\A w \in WorkerIds :
            /\ (tmPc = "running" /\ tmPc' = "running") => LiveWorkers' = LiveWorkers
            /\ (InBody(w) /\ wpc'[w] # wpc[w]) =>
                  \/ InBody(w)' /\ wtask'[w] = wtask[w]
                  \/ /\ wpc[w] = "finish" /\ wpc'[w] = "lock"
                     /\ m_finished'[wtask[w]] /\ outcome[wtask[w]] # "none"]_vars

\* The single worker has run a task that threw an exception of unknown type
\* and then taken the next task from the queue.
C17_Witness ==
    /\ NumWorkers = 1
    /\ Len(popped) = 2
    /\ m_function[popped[1]] = ScriptUnknown
    /\ m_finished[popped[1]]
    /\ m_exceptionMessage[popped[1]] = "Unknown Exception"
    /\ \A w \in WorkerIds : ~stopRequested[w]

\* C18: from init() until exit() clears the lists, every task in the pending
\* queue is in the registry and not finished, and so is every task a worker
\* holds: collectGarbage() removes no task that is pending or running.
Held == {wtask[w] : w \in WorkerIds} \ {0}

C18_PendingIsRegistered ==
    tmPc \in {"running", "exit_stop", "exit_notify", "exit_join"} =>
        /\ \A t \in Range(s_taskQueue) \cup Held :
              t \in Range(s_tasks) /\ ~m_finished[t]
        /\ NoDuplicates(s_taskQueue)
        /\ NoDuplicates(s_tasks)

\* collectGarbage() has just erased, with one task pending and one running.
C18_Witness ==
    /\ gcPc = "check"
    /\ s_taskQueue # << >>
    /\ \E w \in WorkerIds : wpc[w] = "run" /\ wtask[w] \in Range(s_tasks)
    /\ Len(s_tasks) = 2

\* C19: no task is popped twice or started twice, no two workers hold the
\* same task, and no worker holds a task that has finished.
C19_RunAtMostOnce ==
    /\ NoDuplicates(popped)
    /\ NoDuplicates(started)
    /\ \A t \in Range(popped) : t \notin Range(s_taskQueue)
    /\ \A w1, w2 \in WorkerIds :
          (w1 # w2 /\ wtask[w1] # 0) => wtask[w1] # wtask[w2]
    /\ \A w \in WorkerIds : wtask[w] # 0 => ~m_finished[wtask[w]]

\* Two workers run two tasks at the same time.
C19_Witness ==
    \E w1, w2 \in WorkerIds :
        /\ w1 # w2
        /\ wpc[w1] = "run" /\ wpc[w2] = "run"
        /\ Len(started) = 2

\* C20: with at least one worker and no exit(), every task submitted is
\* eventually popped and eventually finished, and while a task is pending
\* some worker is awake: the workers are never all parked on the condition
\* variable with the queue non-empty.
Awake == {w \in WorkerIds : wpc[w] \notin {"none", "parked", "exited", "terminated"}}

C20_NoTaskStranded ==
    /\ [](s_taskQueue # << >> => Awake # {})
    /\ \A t \in TaskIds : (t \in Range(s_taskQueue)) ~> (t \in Range(popped))
    /\ \A t \in TaskIds : (t \in Range(s_taskQueue)) ~> m_finished[t]

\* Every task was created and has finished, and the workers are parked again.
C20_Witness ==
    /\ taskCount = MaxTasks
    /\ \A t \in Created : m_finished[t]
    /\ Awake = {}

\* C16: getProgress() never divides by a max value of 0.
C16_NeverDividesByZero == ~obs.divByZero
====
